---- MODULE Spec2Model ----
(***************************************************************************)
(* Model of the batch driver main() of run_update_ctx.py: the resumable    *)
(* loop over the dataset, the ledger `outputs` kept in memory and          *)
(* rewritten in full to the output file after every item, the error list   *)
(* and the end-of-run summary.  The operating system may terminate the     *)
(* process between any two steps; a later run starts from the file alone.  *)
(***************************************************************************)
EXTENDS Integers, Sequences, FiniteSets, TLC

VARIABLES
    dataset,         \* content of query_datafile: the ordered update records
    initFile,        \* the output file as it was before the first run
    file,            \* output_datafile on disk
    pc,              \* position of the process in main(); "idle" = no process
    examples,        \* local `examples`
    outputs,         \* local `outputs`: the in-memory ledger
    error_list,      \* local `error_list`
    processed_count, \* local `processed_count`
    e,               \* index produced by enumerate(examples[processed_count:])
    i,               \* local `i` after line 136
    exp,             \* local `exp`
    update_query,    \* local `update_query`
    res,             \* local `res`
    reported,        \* what lines 169-177 logged
    runFile,         \* history: the output file when the current run started
    committed,       \* history: the output file when a write last completed
    processed,       \* history: dataset positions whose loop body was entered in this run
    genLog,          \* history: what chain.invoke returned for each entry of `processed`
    genOut,          \* history: per dataset position, the results chain.invoke returned so far
    killedAt,        \* history: where the previous process was terminated ("none" if it exited by itself)
    log              \* history: the calls, writes and exceptions of the current run, in order

vars == <<dataset, initFile, file, pc, examples, outputs, error_list,
          processed_count, e, i, exp, update_query, res, reported,
          runFile, committed, processed, genLog, genOut, killedAt, log>>

locals == <<examples, outputs, error_list, processed_count, e, i, exp,
            update_query, res, reported>>

-----------------------------------------------------------------------------
(* Bounds of the model *)

MaxN == 3          \* largest dataset
MaxInitLen == 3    \* longest ledger found in the output file before the first run

-----------------------------------------------------------------------------
(* Texts and the formatting collaborators *)

EmptyText == [body |-> <<>>, form |-> "none", parses |-> FALSE]

RawText(b, p) == [body |-> b, form |-> "raw", parses |-> p]

\* utils.parser.get_code_without_comments: the same code with comments removed
get_code_without_comments(t) ==
    IF t = EmptyText THEN EmptyText ELSE [t EXCEPT !.form = "clean"]

\* utils.formatter.formatted_java_code: pretty-printed code, empty when the
\* text cannot be parsed
formatted_java_code(t) ==
    IF t.parses THEN [t EXCEPT !.form = "fmt"] ELSE EmptyText

\* Python truthiness of a text
TextTruthy(t) == t # EmptyText

\* the results of chain.invoke: extracted code, or the failure sentinel
Sentinel == ""
GenCode == "code"
Predictions == {Sentinel, GenCode}

\* `if res:` of line 154
Truthy(r) == r # Sentinel

-----------------------------------------------------------------------------
(* The dataset and the output file *)

\* the update record at dataset position j (1-based); p: whether its sources parse
Example(j, p) == [test_src |-> RawText(<<"src", j>>, p), method_tgt |-> RawText(<<"tgt", j>>, p)]

\* datasets of up to MaxN records: all sources parse, none does, or they alternate
Datasets ==
    {[j \in 1..n |-> Example(j, IF alt THEN (j % 2 = 1) = p ELSE p)] :
        n \in 0..MaxN, alt \in BOOLEAN, p \in BOOLEAN}

NoExample == [test_src |-> EmptyText, method_tgt |-> EmptyText]
NoQuery == [test_src |-> EmptyText]
NoReport == [count |-> -1, errors |-> <<>>]

AbsentFile == [st |-> "absent", data |-> <<>>]
EmptyFile == [st |-> "partial", data |-> <<>>]
CompleteFile(l) == [st |-> "complete", data |-> l]

\* a record some earlier run left in the output file
OldRecord(id, p) ==
    [id |-> id, original |-> RawText(<<"old", id>>, TRUE), prediction |-> p,
     reference |-> RawText(<<"old", id>>, TRUE)]

\* the id of the record at index j (from 1) of a ledger left by earlier runs:
\* dense (id = index), with gaps, or all the same
OldId(shape, j) ==
    CASE shape = "dense" -> j - 1
      [] shape = "gaps" -> 2 * j - 1
      [] shape = "same" -> 0

InitLedgers ==
    {[j \in 1..k |-> OldRecord(OldId(shape, j), p)] :
        k \in 0..MaxInitLen, shape \in {"dense", "gaps", "same"}, p \in Predictions}

InitFiles == {AbsentFile, EmptyFile} \cup {CompleteFile(l) : l \in InitLedgers}

-----------------------------------------------------------------------------
(* Pure steps of main() *)

write_to_file == TRUE

\* the saved records are counted but not taken over into `outputs`
LoadedLedger_Dropped(content) == <<>>

\* line 127
LoadedLedger(content) == content

\* the resume point taken from the last saved id, without the + 1
ResumeCount_LastId(content) == content[Len(content)].id

\* the saved records ignored: every run starts at 0
ResumeCount_Zero(content) == 0

\* the resume point taken from the last saved id
ResumeCount_NextId(content) == content[Len(content)].id + 1

\* line 128
ResumeCount(content) == Len(content)

\* the slice taken one element early: examples[processed_count - 1:]
ExamplesFrom_OffByOne(exs, k) ==
    IF exs = <<>> THEN <<>>
    ELSE IF k = 0 THEN <<exs[Len(exs)]>>
    ELSE SubSeq(exs, k, Len(exs))

\* examples[processed_count:] of line 135
ExamplesFrom(exs, k) == SubSeq(exs, k + 1, Len(exs))

\* the enumerate index used as id, without the offset
ItemId_NoOffset(count, idx) == idx

\* line 136
ItemId(count, idx) == count + idx

\* lines 82-84: the test source sent to generation
QueryTestSrc(x) ==
    LET test_src_clean == get_code_without_comments(x.test_src)
        test_src_fmt == formatted_java_code(test_src_clean)
    IN  IF TextTruthy(test_src_fmt) THEN test_src_fmt ELSE x.test_src

\* lines 144-145
Reference(x) == formatted_java_code(get_code_without_comments(x.method_tgt))

\* lines 147-152
MakeRecord(id, q, r, x) ==
    [id |-> id, original |-> q.test_src, prediction |-> r, reference |-> Reference(x)]

\* the new record stored over the last one
LedgerAppend_Overwrite(outs, rec) ==
    IF outs = <<>> THEN <<rec>> ELSE [outs EXCEPT ![Len(outs)] = rec]

\* line 146
LedgerAppend(outs, rec) == Append(outs, rec)

\* the branches of line 154 exchanged
NextErrorList_Inverted(errs, id, r) == IF Truthy(r) THEN Append(errs, id) ELSE errs

\* every processed id noted, whatever the result
NextErrorList_Always(errs, id, r) == Append(errs, id)

\* lines 154-160
NextErrorList(errs, id, r) == IF Truthy(r) THEN errs ELSE Append(errs, id)

\* the errors not subtracted
SummaryCount_All(exs, errs) == Len(exs)

\* line 176
SummaryCount(exs, errs) == Len(exs) - Len(errs)

\* the next index skipped
NextIndex_Skip(idx) == idx + 2

\* the index never advanced
NextIndex_Stuck(idx) == idx

\* line 135: enumerate hands out 0, 1, 2, ...
NextIndex(idx) == idx + 1

\* a failed read of the dataset caught, the run going on without examples
OnRaise_DataSwallowed(site) ==
    CASE site = "read_examples" -> "resume"
      [] site = "json_load" -> "abort_load"
      [] site \in {"query", "generate"} -> "abort_item"
      [] site = "write" -> "abort_write"

\* a failed write caught, the loop going on
OnRaise_WriteSwallowed(site) ==
    CASE site = "read_examples" -> "abort_data"
      [] site = "json_load" -> "abort_load"
      [] site \in {"query", "generate"} -> "abort_item"
      [] site = "write" -> "sleep"

\* an exception of the item caught, the loop going on to the next item
OnRaise_ItemSwallowed(site) ==
    CASE site = "read_examples" -> "abort_data"
      [] site = "json_load" -> "abort_load"
      [] site \in {"query", "generate"} -> "sleep"
      [] site = "write" -> "abort_write"

\* main() holds no try/except: an exception raised at `site` leaves main()
OnRaise(site) ==
    CASE site = "read_examples" -> "abort_data"
      [] site = "json_load" -> "abort_load"
      [] site \in {"query", "generate"} -> "abort_item"
      [] site = "write" -> "abort_write"

\* line 163: open(output_datafile, "w") truncates the file
OpenForWrite(f) == EmptyFile

\* only the new record dumped
DumpedLedger_NewOnly(outs) == <<outs[Len(outs)]>>

\* line 164: the document json.dump is given
DumpedLedger(outs) == outs

\* line 164: json.dump writes the records of the document in order
NextChunk(f, doc) == [f EXCEPT !.data = Append(f.data, doc[Len(f.data) + 1])]

-----------------------------------------------------------------------------
Init ==
    /\ dataset \in Datasets
    /\ initFile \in InitFiles
    /\ file = initFile
    /\ committed = initFile
    /\ runFile = initFile
    /\ pc = "idle"
    /\ examples = <<>>
    /\ outputs = <<>>
    /\ error_list = <<>>
    /\ processed_count = 0
    /\ e = 0
    /\ i = 0
    /\ exp = NoExample
    /\ update_query = NoQuery
    /\ res = Sentinel
    /\ reported = NoReport
    /\ processed = <<>>
    /\ genLog = <<>>
    /\ genOut = [j \in 0..(Len(dataset) - 1) |-> {}]
    /\ killedAt = "none"
    /\ log = <<>>

history == <<runFile, committed, processed, genLog, genOut, killedAt, log>>

ClearLocals ==
    /\ examples' = <<>>
    /\ outputs' = <<>>
    /\ error_list' = <<>>
    /\ processed_count' = 0
    /\ e' = 0
    /\ i' = 0
    /\ exp' = NoExample
    /\ update_query' = NoQuery
    /\ res' = Sentinel
    /\ reported' = NoReport

\* an entry of the log: what happened, and for which dataset position
\* (NoPos when it concerns no item)
NoPos == -1
Event(kind, pos) == <<kind, pos>>

\* lines 99-112: a new process enters main()
Start ==
    /\ pc = "idle"
    /\ pc' = "read_examples"
    /\ ClearLocals
    /\ runFile' = file
    /\ UNCHANGED <<dataset, initFile, file, committed, processed, genLog, genOut,
                   killedAt, log>>

\* lines 114-119: read_examples returns the dataset or raises
ReadExamples ==
    /\ pc = "read_examples"
    /\ \E ok \in BOOLEAN :
         IF ok
         THEN /\ examples' = dataset
              /\ pc' = "resume"
              /\ log' = log
         ELSE /\ examples' = examples
              /\ pc' = OnRaise("read_examples")
              /\ log' = Append(log, Event("data_error", NoPos))
    /\ UNCHANGED <<dataset, initFile, file, outputs, error_list, processed_count,
                   e, i, exp, update_query, res, reported,
                   runFile, committed, processed, genLog, genOut, killedAt>>

\* lines 121-133: json.load raises on a file that is no complete JSON document
Resume ==
    /\ pc = "resume"
    /\ IF write_to_file /\ file.st # "absent"
       THEN IF file.st = "partial"
            THEN /\ pc' = OnRaise("json_load")
                 /\ log' = Append(log, Event("load_error", NoPos))
                 /\ UNCHANGED <<outputs, processed_count>>
            ELSE /\ pc' = "loop"
                 /\ log' = Append(log, Event("load", NoPos))
                 /\ IF file.data # <<>>
                    THEN /\ outputs' = LoadedLedger(file.data)
                         /\ processed_count' = ResumeCount(file.data)
                    ELSE UNCHANGED <<outputs, processed_count>>
       ELSE /\ pc' = "loop"
            /\ UNCHANGED <<outputs, processed_count, log>>
    /\ e' = 0
    /\ UNCHANGED <<dataset, initFile, file, examples, error_list, i, exp,
                   update_query, res, reported,
                   runFile, committed, processed, genLog, genOut, killedAt>>

\* lines 135-137: the next element of enumerate(examples[processed_count:])
LoopNext ==
    /\ pc = "loop"
    /\ LET rest == ExamplesFrom(examples, processed_count)
       IN  IF e < Len(rest)
           THEN /\ exp' = rest[e + 1]
                /\ i' = ItemId(processed_count, e)
                /\ processed' = Append(processed, processed_count + e)
                /\ pc' = "query"
           ELSE /\ pc' = "summary"
                /\ UNCHANGED <<exp, i, processed>>
    /\ UNCHANGED <<dataset, initFile, file, examples, outputs, error_list,
                   processed_count, e, update_query, res, reported,
                   runFile, committed, genLog, genOut, killedAt, log>>

\* lines 140-141: construct_update_query returns the query or raises
Query ==
    /\ pc = "query"
    /\ \E ok \in BOOLEAN :
         IF ok
         THEN /\ update_query' = [test_src |-> QueryTestSrc(exp)]
              /\ pc' = "generate"
              /\ log' = Append(log, Event("qb", processed_count + e))
         ELSE /\ update_query' = update_query
              /\ pc' = OnRaise("query")
              /\ log' = Append(log, Event("qb_error", processed_count + e))
    /\ UNCHANGED <<dataset, initFile, file, examples, outputs, error_list,
                   processed_count, e, i, exp, res, reported,
                   runFile, committed, processed, genLog, genOut, killedAt>>

\* line 142: chain.invoke returns code, returns the sentinel, or raises
Generate ==
    /\ pc = "generate"
    /\ \/ \E r \in Predictions :
            /\ res' = r
            /\ genLog' = Append(genLog, r)
            /\ genOut' = [genOut EXCEPT ![processed_count + e] = @ \cup {r}]
            /\ pc' = "append"
            /\ log' = Append(log, Event("gen", processed_count + e))
       \/ /\ pc' = OnRaise("generate")
          /\ log' = Append(log, Event("gen_error", processed_count + e))
          /\ UNCHANGED <<res, genLog, genOut>>
    /\ UNCHANGED <<dataset, initFile, file, examples, outputs, error_list,
                   processed_count, e, i, exp, update_query, reported,
                   runFile, committed, processed, killedAt>>

\* lines 144-160: append the record, note the id of a failed generation
AppendRecord ==
    /\ pc = "append"
    /\ outputs' = LedgerAppend(outputs, MakeRecord(i, update_query, res, exp))
    /\ error_list' = NextErrorList(error_list, i, res)
    /\ pc' = IF write_to_file THEN "persist" ELSE "sleep"
    /\ log' = Append(log, Event("append", processed_count + e))
    /\ UNCHANGED <<dataset, initFile, file, examples, processed_count, e, i, exp,
                   update_query, res, reported,
                   runFile, committed, processed, genLog, genOut, killedAt>>

\* line 163: open(output_datafile, "w"), or the open fails
WriteOpen ==
    /\ pc = "persist"
    /\ \/ /\ file' = OpenForWrite(file)
          /\ pc' = "dump"
          /\ log' = Append(log, Event("open", processed_count + e))
       \/ /\ pc' = OnRaise("write")
          /\ file' = file
          /\ log' = Append(log, Event("write_error", processed_count + e))
    /\ UNCHANGED <<dataset, initFile, locals,
                   runFile, committed, processed, genLog, genOut, killedAt>>

\* line 164: json.dump writes the next part of the ledger, or the write fails
WriteChunk ==
    /\ pc = "dump"
    /\ Len(file.data) < Len(DumpedLedger(outputs))
    /\ \/ /\ file' = NextChunk(file, DumpedLedger(outputs))
          /\ pc' = "dump"
          /\ log' = log
       \/ /\ pc' = OnRaise("write")
          /\ file' = file
          /\ log' = Append(log, Event("write_error", processed_count + e))
    /\ UNCHANGED <<dataset, initFile, locals,
                   runFile, committed, processed, genLog, genOut, killedAt>>

\* line 164, end of the with block: the document is closed and flushed
WriteClose ==
    /\ pc = "dump"
    /\ Len(file.data) = Len(DumpedLedger(outputs))
    /\ file' = CompleteFile(file.data)
    /\ committed' = file'
    /\ pc' = "sleep"
    /\ log' = Append(log, Event("persisted", processed_count + e))
    /\ UNCHANGED <<dataset, initFile, locals, runFile, processed, genLog, genOut, killedAt>>

\* lines 166-167, and enumerate handing out the next index
Sleep ==
    /\ pc = "sleep"
    /\ e' = NextIndex(e)
    /\ pc' = "loop"
    /\ UNCHANGED <<dataset, initFile, file, examples, outputs, error_list,
                   processed_count, i, exp, update_query, res, reported, history>>

\* lines 169-177
Summary ==
    /\ pc = "summary"
    /\ reported' = IF write_to_file
                   THEN [count |-> SummaryCount(examples, error_list),
                         errors |-> IF Len(error_list) > 0 THEN error_list ELSE <<>>]
                   ELSE reported
    /\ pc' = "done"
    /\ UNCHANGED <<dataset, initFile, file, examples, outputs, error_list,
                   processed_count, e, i, exp, update_query, res, history>>

Running ==
    pc \in {"read_examples", "resume", "loop", "query", "generate", "append",
            "persist", "dump", "sleep", "summary"}

Ended == pc \in {"done", "abort_data", "abort_load", "abort_item", "abort_write"}

\* main() has returned or an exception has left it: the process exits
Exit ==
    /\ Ended
    /\ pc' = "idle"
    /\ ClearLocals
    /\ killedAt' = "none"
    /\ processed' = <<>>
    /\ genLog' = <<>>
    /\ log' = <<>>
    /\ UNCHANGED <<dataset, initFile, file, runFile, committed, genOut>>

\* what is kept of the place of a termination: during the rewrite of the file
\* ("dump"), right after it ("sleep"), or elsewhere
KillPoint(p) == IF p \in {"dump", "sleep"} THEN p ELSE "other"

\* the process is terminated from outside, wherever it is
Kill ==
    /\ Running
    /\ pc' = "idle"
    /\ ClearLocals
    /\ killedAt' = KillPoint(pc)
    /\ processed' = <<>>
    /\ genLog' = <<>>
    /\ log' = <<>>
    /\ UNCHANGED <<dataset, initFile, file, runFile, committed, genOut>>

Next ==
    \/ Start
    \/ ReadExamples
    \/ Resume
    \/ LoopNext
    \/ Query
    \/ Generate
    \/ AppendRecord
    \/ WriteOpen
    \/ WriteChunk
    \/ WriteClose
    \/ Sleep
    \/ Summary
    \/ Exit
    \/ Kill

Spec == Init /\ [][Next]_vars

\* the statements of main(): every step but the start, the exit and the
\* termination of the process
ProgramStep ==
    \/ ReadExamples
    \/ Resume
    \/ LoopNext
    \/ Query
    \/ Generate
    \/ AppendRecord
    \/ WriteOpen
    \/ WriteChunk
    \/ WriteClose
    \/ Sleep
    \/ Summary

\* the datasets all of whose sources parse
FairInit == Init /\ \A j \in 1..Len(dataset) : dataset[j].test_src.parses

\* a process that is not terminated goes on to its next statement
FairSpec == FairInit /\ [][Next]_vars /\ WF_vars(ProgramStep)

-----------------------------------------------------------------------------
(* Vocabulary of the properties *)

N == Len(dataset)

\* ledger[j].id = j, counting from 0
Dense(l) == \A j \in 1..Len(l) : l[j].id = j - 1

\* the sequence a, a+1, ..., b-1
FromTo(a, b) == [j \in 1..(IF b > a THEN b - a ELSE 0) |-> a + j - 1]

IsPrefix(s, t) == Len(s) <= Len(t) /\ \A j \in 1..Len(s) : s[j] = t[j]

Occurrences(s, x) == Cardinality({j \in 1..Len(s) : s[j] = x})

\* a previous process was terminated from outside
Terminated == killedAt # "none"

-----------------------------------------------------------------------------
\* C1 (resume correctness): a run that finds a ledger of k <= N records with
\* ledger[j].id = j in the output file never enters the loop body for an item
\* below k, enters it for k, k+1, ... in this order, and when it finishes it
\* has processed exactly k..N-1 and the ledger, in memory and in the file,
\* has exactly N records with ids 0..N-1.
C1_ResumeCorrectness ==
    (/\ pc # "idle"
     /\ runFile.st = "complete"
     /\ Dense(runFile.data)
     /\ Len(runFile.data) <= N)
    => /\ processed = FromTo(Len(runFile.data), Len(runFile.data) + Len(processed))
       /\ pc = "done" =>
            /\ processed = FromTo(Len(runFile.data), N)
            /\ Len(outputs) = N
            /\ Dense(outputs)
            /\ file = CompleteFile(outputs)

\* a finished run over 3 items that found the records 0 in the file it was given
C1_Witness ==
    /\ pc = "done"
    /\ initFile.st = "complete"
    /\ runFile = initFile
    /\ Dense(runFile.data)
    /\ Len(runFile.data) = 1
    /\ N = 3
    /\ processed = <<1, 2>>

\* C2 (ledger density): when the output file is absent before the first run,
\* in every state, over all runs, the ledger in memory and the records in the
\* output file satisfy ledger[j].id = j.
C2_LedgerDensity ==
    initFile = AbsentFile => (Dense(outputs) /\ Dense(file.data))

\* a resumed run, after an interrupted one, has just written its second record
C2_Witness ==
    /\ initFile = AbsentFile
    /\ Terminated
    /\ pc = "sleep"
    /\ Len(runFile.data) >= 1
    /\ Len(file.data) >= Len(runFile.data) + 2

\* C3 (crash atomicity of the ledger write): whenever the process has been
\* terminated, the output file is what the last completed write (or the
\* state before the first run) left: never a truncated or partial ledger.
C3_CrashAtomicity ==
    (pc = "idle" /\ Terminated) => file = committed

\* C4 (bounded loss on termination): after a termination every record of the
\* last completed write is still in the output file, the next run does not
\* fail on the file, and the first item it processes is the first one without
\* a persisted record.
C4_BoundedLoss ==
    (Terminated /\ committed.st # "partial")
    => /\ pc = "idle" => IsPrefix(committed.data, file.data)
       /\ pc # "abort_load"
       /\ (pc = "query" /\ e = 0) => processed = <<Len(committed.data)>>

\* every call of the Generation Step for one item returned the same result
Deterministic == \A j \in DOMAIN genOut : Cardinality(genOut[j]) <= 1

\* record j (from 0) of the ledger a single uninterrupted run produces from
\* the same dataset and the same initial output file
UninterruptedRecord(j) ==
    IF initFile.st = "complete" /\ j < Len(initFile.data)
    THEN initFile.data[j + 1]
    ELSE [id |-> j,
          original |-> QueryTestSrc(dataset[j + 1]),
          prediction |-> CHOOSE r \in genOut[j] : TRUE,
          reference |-> Reference(dataset[j + 1])]

\* C5 (idempotent restart): with a deterministic Generation Step, when a run
\* was terminated right after writing record i and the restarted run has
\* finished, records 0..i of the final ledger, in memory and in the file,
\* are those of a single uninterrupted run.
C5_IdempotentRestart ==
    (pc = "done" /\ killedAt = "sleep" /\ Deterministic)
    => \A j \in 0..(Len(runFile.data) - 1) :
          /\ j < Len(outputs)
          /\ outputs[j + 1] = UninterruptedRecord(j)
          /\ j < Len(file.data)
          /\ file.data[j + 1] = UninterruptedRecord(j)

\* the first run was terminated right after writing record 1 of 3; the restart finished
C5_Witness ==
    /\ pc = "done"
    /\ killedAt = "sleep"
    /\ Deterministic
    /\ initFile = AbsentFile
    /\ Len(runFile.data) = 2
    /\ N = 3
    /\ processed = <<2>>

Min(a, b) == IF a < b THEN a ELSE b

\* the number of records the current run took over from the output file
LoadedLen == IF runFile.st = "complete" THEN Len(runFile.data) ELSE 0

InLoop ==
    pc \in {"loop", "query", "generate", "append", "persist", "dump", "sleep",
            "summary", "done", "abort_item", "abort_write"}

C6_Step ==
    /\ (pc = "append" /\ pc' # "idle") => Len(outputs') = Len(outputs) + 1
    /\ pc' # "idle" => IsPrefix(outputs, outputs')
    /\ \A j \in 1..Min(Len(file.data), Len(file'.data)) : file'.data[j] = file.data[j]
    /\ InLoop =>
         /\ \A j \in 1..Min(Len(file.data), Len(outputs)) : file.data[j] = outputs[j]
         /\ Len(outputs) = LoadedLen + Len(processed)
                              - (IF pc \in {"query", "generate", "append", "abort_item"} THEN 1 ELSE 0)

C7_Step ==
    /\ (pc = "append" /\ res = Sentinel /\ pc' # "idle")
       => /\ pc' = "persist"
          /\ Len(outputs') = Len(outputs) + 1
          /\ IsPrefix(outputs, outputs')
          /\ outputs'[Len(outputs')].id = i
          /\ outputs'[Len(outputs')].prediction = Sentinel
          /\ error_list' = Append(error_list, i)
    /\ pc = "done"
       => \A idx \in 1..Len(processed) :
             genLog[idx] = Sentinel
             => LET p == processed[idx]
                IN  /\ p < Len(outputs)
                    /\ outputs[p + 1].id = p
                    /\ outputs[p + 1].prediction = Sentinel
                    /\ file.st = "complete"
                    /\ p < Len(file.data)
                    /\ file.data[p + 1] = outputs[p + 1]
                    /\ Occurrences(error_list, p) = 1
                    /\ \A q \in (p + 1)..(N - 1) : Occurrences(processed, q) = 1

\* C7 (error isolation): when the Generation Step returned the sentinel for
\* item i the next step of the run appends a record for i with the sentinel
\* as prediction, notes i in the error list and goes on to persist; in a
\* finished run that record is in the ledger and in the file, every item
\* after i was processed and i is in the error list exactly once.
C7_ErrorIsolation == [][C7_Step]_vars

\* generation failed for item 0 of 3 only, and the run finished
C7_Witness ==
    /\ pc = "done"
    /\ N = 3
    /\ processed = <<0, 1, 2>>
    /\ genLog = <<Sentinel, GenCode, GenCode>>
    /\ error_list = <<0>>

\* the ids in [from, N) whose record holds the sentinel, in increasing order
FailedFrom(from) ==
    SelectSeq(FromTo(from, N), LAMBDA p : outputs[p + 1].prediction = Sentinel)

C9_SummaryAccuracy ==
    pc = "done"
    => /\ reported.count = N - Len(error_list)
       /\ reported.errors = error_list
       /\ reported.count + Len(error_list) = N

\* the summary of a resumed run in which one item failed
C9_Witness ==
    /\ pc = "done"
    /\ LoadedLen = 1
    /\ N = 3
    /\ Len(error_list) = 1
    /\ reported.count = 2

\* C10 (file mirrors ledger): once a write of this run has returned, at
\* every point up to the next append and at the end of the run, also when an
\* exception stops the run at a later item, the output file is the complete
\* in-memory ledger.
C10_FileMirrorsLedger ==
    (\/ pc = "sleep"
     \/ pc \in {"loop", "query", "generate", "append", "summary", "done", "abort_item"} /\ e > 0)
    => file = CompleteFile(outputs)

\* an exception stops a resumed run at its second item
C10_Witness ==
    /\ pc = "abort_item"
    /\ e = 1
    /\ LoadedLen = 1
    /\ Len(outputs) = 2

-----------------------------------------------------------------------------
\* C11 (loading an absent or empty file): a run that finds the output file
\* absent, or present and empty, does not fail on it and enters the loop at
\* index 0 with an empty ledger.
C11_LoadAbsentOrEmpty ==
    (pc # "idle" /\ (runFile.st = "absent" \/ runFile.data = <<>>))
    => /\ pc # "abort_load"
       /\ (pc = "loop" /\ e = 0) => (outputs = <<>> /\ processed_count = 0)

\* what C12 says of the start state: the ledger and the start index are taken
\* from the output file when resume is enabled and the file exists; otherwise
\* the ledger is empty and the start index 0
C12_StartState ==
    (pc = "loop" /\ e = 0)
    => IF write_to_file /\ runFile.st # "absent"
       THEN outputs = runFile.data /\ processed_count = Len(runFile.data)
       ELSE outputs = <<>> /\ processed_count = 0

\* C12 as stated (start-state selection): the start state is selected as
\* above, and a finished run that found no output file has processed 0..N-1
\* in order and left an output file holding exactly those N records.
C12_StartSelection_Original ==
    /\ C12_StartState
    /\ (pc = "done" /\ runFile = AbsentFile)
       => /\ processed = FromTo(0, N)
          /\ Len(outputs) = N
          /\ Dense(outputs)
          /\ file = CompleteFile(outputs)

\* C12 as amended: the same, the output file existing afterwards only when
\* the dataset holds at least one item; with an empty dataset nothing is
\* written and the file stays absent.
C12_StartSelection ==
    /\ C12_StartState
    /\ (pc = "done" /\ runFile = AbsentFile)
       => /\ processed = FromTo(0, N)
          /\ Len(outputs) = N
          /\ Dense(outputs)
          /\ file = (IF N >= 1 THEN CompleteFile(outputs) ELSE AbsentFile)

\* a finished run over 3 items that found no output file
C12_Witness ==
    /\ pc = "done"
    /\ runFile = AbsentFile
    /\ N = 3
    /\ processed = <<0, 1, 2>>
    /\ file.st = "complete"
    /\ Len(file.data) = 3

\* C13 (dataset load failure): when read_examples has raised, the run is
\* over: nothing else has happened in it, no item was processed, neither
\* collaborator was called, the output file was not read and is unchanged.
C13_DataLoadFatal ==
    \A k \in 1..Len(log) :
        log[k][1] = "data_error"
        => /\ Len(log) = 1
           /\ pc = "abort_data"
           /\ processed = <<>>
           /\ genLog = <<>>
           /\ outputs = <<>>
           /\ error_list = <<>>
           /\ reported = NoReport
           /\ file = runFile

\* the dataset could not be read while a ledger was waiting in the output file
C13_Witness ==
    /\ pc = "abort_data"
    /\ log = <<Event("data_error", NoPos)>>
    /\ runFile.st = "complete"
    /\ Len(runFile.data) = 1
    /\ N = 3

\* C14 (persistence failure): when the write for item i has failed, the run
\* is over at that point: nothing follows the failure, no later item is
\* processed, no summary is reported, the write is not recorded as completed
\* and the file is not the complete ledger with record i.
C14_PersistenceFatal ==
    \A k \in 1..Len(log) :
        log[k][1] = "write_error"
        => /\ k = Len(log)
           /\ pc = "abort_write"
           /\ processed # <<>>
           /\ processed[Len(processed)] = log[k][2]
           /\ reported = NoReport
           /\ \A m \in 1..Len(log) : log[m] # Event("persisted", log[k][2])
           /\ committed # CompleteFile(outputs)
           /\ file # CompleteFile(outputs)

\* the write for item 0 of 3 failed after the file had been opened
C14_Witness ==
    /\ pc = "abort_write"
    /\ N = 3
    /\ processed = <<0>>
    /\ file = EmptyFile
    /\ log[Len(log)] = Event("write_error", 0)

\* the events of one iteration, in the order of the loop body
ItemKinds == <<"qb", "gen", "append", "open", "persisted">>

\* the log of the loop: the log without the read of the output file
LoopLog ==
    IF log = <<>> THEN <<>>
    ELSE IF log[1][1] \in {"data_error", "load_error"} THEN <<>>
    ELSE IF log[1][1] = "load" THEN Tail(log)
    ELSE log

\* the exception that may take the place of a step of the loop body
ErrorOf(kind) ==
    CASE kind = "qb" -> {"qb_error"}
      [] kind = "gen" -> {"gen_error"}
      [] kind = "append" -> {}
      [] kind \in {"open", "persisted"} -> {"write_error"}

\* C15 (strictly sequential processing): in a run the loop body is entered
\* for start, start+1, ... in this order, and the calls and writes of the run
\* are, item after item, one Query Builder call, one Generation Step call,
\* one append, one rewrite of the file: the record of an item is persisted
\* before the Query Builder is called for the next; only an exception, as
\* the last event, takes the place of a step.
C15_Sequential ==
    pc # "idle"
    => /\ processed = FromTo(processed_count, processed_count + Len(processed))
       /\ \A k \in 1..Len(LoopLog) :
            LET ev == LoopLog[k]
                pos == processed_count + ((k - 1) \div 5)
                kind == ItemKinds[((k - 1) % 5) + 1]
            IN  /\ pos < N
                /\ ev[2] = pos
                /\ \/ ev[1] = kind
                   \/ k = Len(LoopLog) /\ ev[1] \in ErrorOf(kind)

\* a resumed run has called the Query Builder for its second item
C15_Witness ==
    /\ pc = "generate"
    /\ processed = <<1, 2>>
    /\ Len(LoopLog) = 6
    /\ LoopLog[5] = Event("persisted", 1)
    /\ LoopLog[6] = Event("qb", 2)

\* C16 (reference fallback): the reference of every record appended in the
\* run is the formatted target test when formatting succeeds and the raw
\* target test when it fails; it is not empty when the target test is not.
C16_ReferenceFallback ==
    (InLoop /\ LoadedLen <= N)
    => \A j \in (LoadedLen + 1)..Len(outputs) :
          LET tgt == dataset[j].method_tgt
              fmt == formatted_java_code(get_code_without_comments(tgt))
          IN  /\ outputs[j].reference = (IF TextTruthy(fmt) THEN fmt ELSE tgt)
              /\ TextTruthy(tgt) => TextTruthy(outputs[j].reference)

\* C17 (count-based resume): whatever ids the loaded records carry, the run
\* starts at the number of loaded records, keeps them as they are, and every
\* record it appends has its own index in the ledger as id.
C17_CountBasedResume ==
    InLoop
    => /\ processed_count = LoadedLen
       /\ processed # <<>> => processed[1] = LoadedLen
       /\ LoadedLen <= Len(outputs)
       /\ SubSeq(outputs, 1, LoadedLen) = (IF LoadedLen = 0 THEN <<>> ELSE runFile.data)
       /\ \A j \in (LoadedLen + 1)..Len(outputs) : outputs[j].id = j - 1

\* a run that loaded two records with ids 1 and 3 has written record 2
C17_Witness ==
    /\ pc = "sleep"
    /\ LoadedLen = 2
    /\ runFile.data[1].id = 1
    /\ runFile.data[2].id = 3
    /\ Len(outputs) = 3
    /\ outputs[3].id = 2

\* C18 (complete or over-complete ledger): a run that finds k >= N records
\* in the output file processes no item, calls neither collaborator, writes
\* nothing and leaves the error list empty and the file as it was.
C18_CompleteLedgerNoOp ==
    (pc # "idle" /\ runFile.st = "complete" /\ Len(runFile.data) >= N)
    => /\ processed = <<>>
       /\ genLog = <<>>
       /\ \A k \in 1..Len(log) : log[k][1] \in {"load", "data_error"}
       /\ error_list = <<>>
       /\ file = runFile
       /\ pc \in {"read_examples", "resume", "loop", "summary", "done", "abort_data"}

\* a finished run that found 3 records for a dataset of 2
C18_Witness ==
    /\ pc = "done"
    /\ N = 2
    /\ Len(runFile.data) = 3
    /\ runFile.st = "complete"
    /\ reported.count = 2

\* C19 (per-item exception): when the Query Builder or the Generation Step
\* has raised for item i, the run is over: nothing follows, no later item is
\* processed, i is not in the error list, and the output file holds exactly
\* the records of the items before i, whole.
C19_ItemExceptionCheckpoint ==
    \A k \in 1..Len(log) :
        log[k][1] \in {"qb_error", "gen_error"}
        => LET p == log[k][2]
           IN  /\ k = Len(log)
               /\ pc = "abort_item"
               /\ processed # <<>>
               /\ processed[Len(processed)] = p
               /\ i = p
               /\ Occurrences(error_list, p) = 0
               /\ reported = NoReport
               /\ file.st \in {"absent", "complete"}
               /\ file.data = outputs
               /\ Len(file.data) = p
               /\ file = (IF e = 0 THEN runFile ELSE committed)

\* the Generation Step raised for item 2 after items 0 and 1 were written
C19_Witness ==
    /\ pc = "abort_item"
    /\ runFile = AbsentFile
    /\ log[Len(log)] = Event("gen_error", 2)
    /\ Len(file.data) = 2
    /\ file.st = "complete"

\* the number of iterations a run that starts at `from` has to make
Iterations(from) == IF N > from THEN N - from ELSE 0

\* a step of the program in which no call raises
ReturningStep ==
    /\ ProgramStep
    /\ pc' \notin {"abort_data", "abort_load", "abort_item", "abort_write"}

C20_Step ==
    /\ pc \in {"query", "generate", "append", "persist", "dump", "sleep"}
       => /\ e < Iterations(processed_count)
          /\ Len(processed) = e + 1
          /\ processed_count + e <= N - 1
          /\ i <= N - 1
    /\ pc = "loop"
       => /\ e <= Iterations(processed_count)
          /\ Len(processed) = e
    /\ pc \in {"summary", "done"}
       => /\ e = Iterations(processed_count)
          /\ Len(processed) = Iterations(processed_count)
    /\ (pc = "sleep" /\ pc' = "loop") => e' = e + 1
    /\ (pc = "loop" /\ pc' # "idle")
       => pc' = (IF e = Iterations(processed_count) THEN "summary" ELSE "query")
    /\ (pc \in {"loop", "query", "generate", "append", "persist", "dump", "sleep", "summary"})
       => ENABLED ReturningStep

\* C20 (termination): a run started at index start makes exactly
\* max(0, N - start) iterations: the index grows by one per iteration and
\* never reaches max(0, N - start) inside the loop body, the loop variable
\* stays below N, the loop is left for the summary exactly when the index is
\* max(0, N - start), and at every point of the loop a step in which no call
\* raises is possible; a run that goes on executing reaches the end-of-run
\* summary unless a call raises or the process is terminated.
C20_Termination ==
    /\ [][C20_Step]_vars
    /\ (pc = "read_examples")
         ~> (pc \in {"done", "idle", "abort_data", "abort_load", "abort_item", "abort_write"})

\* a resumed run over 3 items reached the summary after 2 iterations
C20_Witness ==
    /\ pc = "done"
    /\ N = 3
    /\ processed_count = 1
    /\ e = 2
    /\ processed = <<1, 2>>

====
